---- MODULE Spec2Model ----
(***************************************************************************)
(* A model of dice_stats.py: the command dispatcher of main, the file      *)
(* selector _sort_all_apropriate_files, the roll parser _read_die_file,    *)
(* the basic and chi_sq commands and _calculate_chi_squared.               *)
(*                                                                         *)
(* Text is modelled as sequences of one-character strings, so that         *)
(* str.strip, int, os.path.splitext, fnmatch and string comparison are     *)
(* computed character by character as Python computes them.  A path is a   *)
(* sequence of names below the working directory (<< >> is the directory   *)
(* itself), a file's content is the sequence of its lines, each with its   *)
(* line terminator, as iterating a Python file object yields them.         *)
(***************************************************************************)
EXTENDS Integers, Sequences, FiniteSets, TLC

VARIABLES
    fs,             \* the file system: path -> [kind, content]
    args,           \* positional command line arguments (parser.parse_args)
    version,        \* options.version
    input,          \* options.input, as a pattern (sequence of path components)
    pc,             \* where the program is
    cand,           \* candidates iglob has not yielded yet
    file_paths,     \* _sort_all_apropriate_files: file_paths / die_file_paths
    idx,            \* position of the for loop over die_file_paths
    lines,          \* lines the open file object has not yielded yet
    first_line,     \* _read_die_file: first_line
    die_desc,       \* _read_die_file: die_desc
    die_rolls,      \* _read_die_file: die_rolls
    handles,        \* paths of the file objects that are open
    temp_tuples,    \* chi_sq: temp_tuples
    ci,             \* position of the for loop of _calculate_chi_squared
    chi_sq_results, \* _calculate_chi_squared: results / chi_sq: chi_sq_results
    keys,           \* chi_sq: sorted(chi_sq_results.keys())
    kpos,           \* position of the for loop over keys
    out,            \* what was printed to standard output
    ret,            \* value returned by main, NoCode before it returns
    exc,            \* the uncaught exception, "none" if there is none
    exit_code       \* exit status of the process, NoCode while it runs

vars == <<fs, args, version, input, pc, cand, file_paths, idx, lines,
          first_line, die_desc, die_rolls, handles, temp_tuples, ci,
          chi_sq_results, keys, kpos, out, ret, exc, exit_code>>

\* bounds of the model
MaxRolls == 3
MaxRunRolls == 2

NoCode == -1

(***************************************************************************)
(* Text                                                                    *)
(***************************************************************************)
NL == "\n"
SP == " "

Whitespace == {SP, NL, "\t"}

Ord(c) ==
    CASE c = "\t" -> 9
      [] c = NL -> 10
      [] c = SP -> 32
      [] c = "*" -> 42
      [] c = "+" -> 43
      [] c = "-" -> 45
      [] c = "." -> 46
      [] c = "1" -> 49
      [] c = "2" -> 50
      [] c = "T" -> 84
      [] c = "X" -> 88
      [] c = "a" -> 97
      [] c = "b" -> 98
      [] c = "c" -> 99
      [] c = "d" -> 100
      [] c = "e" -> 101
      [] c = "t" -> 116
      [] c = "x" -> 120
      [] OTHER -> 127

RECURSIVE LessStr(_, _)
\* a < b for Python strings: lexicographic by character code
LessStr(a, b) ==
    IF b = << >> THEN FALSE
    ELSE IF a = << >> THEN TRUE
    ELSE IF Head(a) = Head(b) THEN LessStr(Tail(a), Tail(b))
    ELSE Ord(Head(a)) < Ord(Head(b))

RECURSIVE LStrip(_)
LStrip(s) ==
    IF s # << >> /\ Head(s) \in Whitespace THEN LStrip(Tail(s)) ELSE s

RECURSIVE RStrip(_)
RStrip(s) ==
    IF s # << >> /\ s[Len(s)] \in Whitespace
    THEN RStrip(SubSeq(s, 1, Len(s) - 1))
    ELSE s

\* str.strip()
Strip(s) == RStrip(LStrip(s))

Digits == {"1", "2"}

DigitVal(c) == IF c = "1" THEN 1 ELSE 2

RECURSIVE DecVal(_, _)
DecVal(s, acc) ==
    IF s = << >> THEN acc ELSE DecVal(Tail(s), 10 * acc + DigitVal(Head(s)))

\* int(line): surrounding whitespace is dropped, an optional sign, then at
\* least one digit and nothing but digits; anything else is a ValueError
ParseInt(line) ==
    LET t == Strip(line)
        signed == t # << >> /\ Head(t) \in {"+", "-"}
        d == IF signed THEN Tail(t) ELSE t
        ok == d # << >> /\ \A i \in 1..Len(d) : d[i] \in Digits
    IN  [ok |-> ok,
         val |-> IF ~ok THEN 0
                 ELSE IF signed /\ Head(t) = "-" THEN 0 - DecVal(d, 0)
                 ELSE DecVal(d, 0)]

(***************************************************************************)
(* The file system, os.path and glob                                       *)
(***************************************************************************)
\* type_suffix_str, ".txt"
Suffix == <<".", "t", "x", "t">>

N_a == <<"a", ".", "t", "x", "t">>
N_b == <<"b", ".", "t", "x", "t">>
N_cTXT == <<"c", ".", "T", "X", "T">>
N_d == <<"d">>
N_e == <<"e", ".", "t", "x", "t">>
N_hidden == <<".", "t", "x", "t">>

File(content) == [kind |-> "file", content |-> content]
Dir == [kind |-> "dir", content |-> << >>]

\* os.path.isdir; the working directory << >> always exists
IsDir(p) == p = << >> \/ (p \in DOMAIN fs /\ fs[p].kind = "dir")

\* os.path.isfile
IsFile(p) == p \in DOMAIN fs /\ fs[p].kind = "file"

\* os.path.lexists
Exists(p) == p = << >> \/ p \in DOMAIN fs

\* os.listdir; glob1 takes a directory that cannot be listed as empty
ListDir(p) ==
    IF ~IsDir(p) THEN {}
    ELSE {q[Len(q)] : q \in {r \in DOMAIN fs :
              Len(r) = Len(p) + 1 /\ SubSeq(r, 1, Len(p)) = p}}

\* os.path.splitext(p)[-1] of a path: the extension of its last name, from
\* the last dot on, empty when only dots precede that dot
SplitExt(p) ==
    LET name == IF p = << >> THEN << >> ELSE p[Len(p)]
        dots == {i \in 1..Len(name) : name[i] = "."}
        d == CHOOSE i \in dots : \A j \in dots : j <= i
    IN  IF dots = {} THEN << >>
        ELSE IF \E j \in 1..(d - 1) : name[j] # "." THEN SubSeq(name, d, Len(name))
        ELSE << >>

RECURSIVE FnMatch(_, _)
\* fnmatch.fnmatchcase for patterns of literal characters and "*"
FnMatch(name, pat) ==
    IF pat = << >> THEN name = << >>
    ELSE IF Head(pat) = "*"
         THEN FnMatch(name, Tail(pat)) \/ (name # << >> /\ FnMatch(Tail(name), pat))
         ELSE name # << >> /\ Head(name) = Head(pat) /\ FnMatch(Tail(name), Tail(pat))

\* glob.has_magic of one name, and of a path
HasMagic(name) == \E i \in 1..Len(name) : name[i] \in {"*", "?", "["}

PathHasMagic(p) == \E i \in 1..Len(p) : HasMagic(p[i])

\* glob.glob1: the names of a directory that match, hidden names only
\* for a pattern that starts with a dot
Glob1(d, pat) ==
    {n \in ListDir(d) : (Head(pat) = "." \/ Head(n) # ".") /\ FnMatch(n, pat)}

\* glob.glob0
Glob0(d, name) == IF Exists(Append(d, name)) THEN {name} ELSE {}

RECURSIVE Glob(_)
\* glob.iglob, as the set of the paths it yields (in the order of os.listdir,
\* which is arbitrary)
Glob(pat) ==
    IF ~PathHasMagic(pat) THEN (IF Exists(pat) THEN {pat} ELSE {})
    ELSE LET dirname == SubSeq(pat, 1, Len(pat) - 1)
             basename == pat[Len(pat)]
             dirs == IF PathHasMagic(dirname) THEN Glob(dirname) ELSE {dirname}
         IN  UNION {{Append(d, n) : n \in
                        IF HasMagic(basename) THEN Glob1(d, basename)
                        ELSE Glob0(d, basename)} : d \in dirs}

\* _sort_all_apropriate_files, lines 75-76: a directory becomes <dir>/*<suffix>
SearchPattern(path) ==
    IF IsDir(path) THEN Append(path, <<"*">> \o Suffix) ELSE path

\* lines 80-81 without the test for a regular file
Acceptable_anyKind(poss_path) == SplitExt(poss_path) = Suffix

\* _sort_all_apropriate_files, lines 80-81
Acceptable(poss_path) == IsFile(poss_path) /\ SplitExt(poss_path) = Suffix

(***************************************************************************)
(* The roll table, the statistics and the reports                          *)
(***************************************************************************)
\* the empty dictionary { }
EmptyDict == << >>

\* line 56 with the count of a value seen before set to 1 again
CountRoll_reset(rolls, roll) ==
    (roll :> 1) @@ rolls

\* _read_die_file, line 56: count one more roll of `roll`
CountRoll(rolls, roll) ==
    IF roll \in DOMAIN rolls
    THEN [rolls EXCEPT ![roll] = rolls[roll] + 1]
    ELSE (roll :> 1) @@ rolls

RECURSIVE SumOver(_, _)
\* numpy.sum over the entries of a dictionary: the sum of w[k] for k in S
SumOver(w, S) ==
    IF S = {} THEN 0
    ELSE LET k == CHOOSE x \in S : TRUE IN w[k] + SumOver(w, S \ {k})

RECURSIVE SortedInts(_)
\* sorted(die_roll_dict.keys())
SortedInts(S) ==
    IF S = {} THEN << >>
    ELSE LET m == CHOOSE x \in S : \A y \in S : x <= y
         IN  <<m>> \o SortedInts(S \ {m})

RECURSIVE SortedStrs_reversed(_)
\* sorted( ) with the order reversed
SortedStrs_reversed(S) ==
    IF S = {} THEN << >>
    ELSE LET m == CHOOSE x \in S : \A y \in S \ {x} : LessStr(y, x)
         IN  <<m>> \o SortedStrs_reversed(S \ {m})

RECURSIVE SortedStrs(_)
\* sorted(chi_sq_results.keys())
SortedStrs(S) ==
    IF S = {} THEN << >>
    ELSE LET m == CHOOSE x \in S : \A y \in S \ {x} : LessStr(x, y)
         IN  <<m>> \o SortedStrs(S \ {m})

\* die_roll_dict.values(): the counts, here in the order of the rolled values
\* (the statistics below do not depend on the order)
Values(rolls) ==
    LET ks == SortedInts(DOMAIN rolls) IN [i \in 1..Len(ks) |-> rolls[ks[i]]]

\* basic, lines 171-190: the raw roll data (the histogram rows have the same
\* values and counts) and the average roll, sum(rolls * side_val) / num_rolls,
\* a fraction, nan when nothing was rolled
BasicReport(desc, rolls) ==
    LET ks == SortedInts(DOMAIN rolls)
        n == SumOver(rolls, DOMAIN rolls)
    IN  [kind |-> "die",
         desc |-> Strip(desc),
         rows |-> [i \in 1..Len(ks) |-> <<ks[i], rolls[ks[i]]>>],
         avg  |-> [nan |-> n = 0,
                   num |-> SumOver([k \in DOMAIN rolls |-> k * rolls[k]], DOMAIN rolls),
                   den |-> n]]

\* scipy.stats.chisquare(f_obs) with the uniform expectation mean(f_obs):
\* the statistic sum((o - e)^2 / e) as the fraction sum((k*o - n)^2) / (k*n),
\* the p value chi2.sf(statistic, k - 1), which is nan for k < 2.  It returns
\* for every array, the empty one included (statistic 0.0)
ChiSquare(obs) ==
    LET k == Len(obs)
        n == SumOver(obs, 1..k)
    IN  [stat |-> [num |-> SumOver([i \in 1..k |-> (k * obs[i] - n) * (k * obs[i] - n)], 1..k),
                   den |-> IF k = 0 THEN 1 ELSE k * n],
         p    |-> [nan |-> k < 2, df |-> k - 1]]

\* line 109 with a description already present left as it is
StoreResult_firstWins(results, desc_str, result) ==
    results @@ (desc_str :> result)

\* _calculate_chi_squared, line 109: results[desc_str] = (chi_sq_stat, p_value)
StoreResult(results, desc_str, result) ==
    (desc_str :> result) @@ results

\* chi_sq, lines 222-225
ChiReport(desc_text, result) ==
    [kind |-> "chi", desc |-> Strip(desc_text), stat |-> result.stat, p |-> result.p]

\* the commands main collects at line 241
Commands == {"basic", "chi_sq", "help"}

(***************************************************************************)
(* The inputs                                                              *)
(***************************************************************************)
SeqsUpTo(S, n) == UNION {[1..k -> S] : k \in 0..n}

Line_1 == <<"1", NL>>
Line_2 == <<"2", NL>>
Line_neg == <<"-", "1", NL>>
Line_pad == <<SP, "1", "2", NL>>
Line_blank == <<NL>>
Line_x == <<"x", NL>>

Desc_a == <<"a", NL>>
Desc_a_sp == <<"a", SP, NL>>
Desc_sp_b == <<SP, "b", NL>>

ValidContent == <<Desc_a, Line_1, Line_2, Line_2>>

\* one die file of any content: no line at all, a description without line
\* terminator, or a description and up to MaxRolls further lines
ParseContents ==
    {<< >>, <<<<"a">>>>}
    \cup {<<Desc_a>> \o r :
            r \in SeqsUpTo({Line_1, Line_2, Line_neg, Line_pad, Line_blank, Line_x},
                            MaxRolls)}

\* the content of each of two die files
RunContents ==
    {<< >>}
    \cup {<<d>> \o r : d \in {Desc_a, Desc_a_sp, Desc_sp_b},
                       r \in SeqsUpTo({Line_1, Line_2, Line_x}, MaxRunRolls)}

\* directories with files of other names and kinds beside a.txt
OptionalPaths == {<<N_cTXT>>, <<N_d>>, <<N_hidden>>, <<N_e>>, <<N_e, N_a>>}

SelectWorlds ==
    {[p \in S \cup {<<N_a>>} |-> IF p = <<N_e>> THEN Dir ELSE File(ValidContent)] :
        S \in {T \in SUBSET OptionalPaths : <<N_e, N_a>> \in T => <<N_e>> \in T}}

\* values of --input: the directory, the default ./*.txt, ./*, ./*/*, one
\* file, a subdirectory
Inputs ==
    {<< >>, <<<<"*">> \o Suffix>>, <<<<"*">>>>, <<<<"*">>, <<"*">>>>, <<N_a>>, <<N_e>>}

AllArgs ==
    {<< >>, <<"bogus">>, <<"basic">>, <<"chi_sq">>, <<"help">>,
     <<"help", "basic">>, <<"help", "bogus">>, <<"basic", "extra">>,
     <<"help", "basic", "extra">>}

InitRest ==
    /\ pc = "start"
    /\ cand = {}
    /\ file_paths = << >>
    /\ idx = 0
    /\ lines = << >>
    /\ first_line = TRUE
    /\ die_desc = << >>
    /\ die_rolls = EmptyDict
    /\ handles = {}
    /\ temp_tuples = << >>
    /\ ci = 0
    /\ chi_sq_results = EmptyDict
    /\ keys = << >>
    /\ kpos = 0
    /\ out = << >>
    /\ ret = NoCode
    /\ exc = "none"
    /\ exit_code = NoCode

\* any command line, over one well-formed die file
InitDispatch ==
    /\ fs = (<<N_a>> :> File(ValidContent))
    /\ args \in AllArgs
    /\ version \in BOOLEAN
    /\ input = << >>

\* any directory and any --input
InitSelect ==
    /\ fs \in SelectWorlds
    /\ args \in {<<"basic">>, <<"chi_sq">>}
    /\ version = FALSE
    /\ input \in Inputs

\* one die file of any content
InitParse ==
    /\ fs \in {(<<N_a>> :> File(c)) : c \in ParseContents}
    /\ args \in {<<"basic">>, <<"chi_sq">>}
    /\ version = FALSE
    /\ input = << >>

\* two die files
InitRun ==
    /\ fs \in {(<<N_a>> :> File(c1)) @@ (<<N_b>> :> File(c2)) :
                 c1 \in RunContents, c2 \in RunContents}
    /\ args \in {<<"basic">>, <<"chi_sq">>}
    /\ version = FALSE
    /\ input = << >>

Init == (InitDispatch \/ InitSelect \/ InitParse \/ InitRun) /\ InitRest

(***************************************************************************)
(* main                                                                    *)
(***************************************************************************)
Emit(item) == out' = Append(out, item)

\* the die file the for loop of basic / chi_sq is at
CurrentFile == file_paths[idx]

\* an exception nothing catches leaves main; a frame that raised stays
\* referenced by the traceback
Raise(e) ==
    /\ exc' = e
    /\ pc' = "raised"

\* main, lines 138-148: the options are parsed, the version is displayed
MainStart ==
    /\ pc = "start"
    /\ pc' = "dispatch"
    /\ out' = IF version THEN Append(out, [kind |-> "version"]) ELSE out
    /\ UNCHANGED <<fs, args, version, input, cand, file_paths, idx, lines,
                   first_line, die_desc, die_rolls, handles, temp_tuples, ci,
                   chi_sq_results, keys, kpos, ret, exc, exit_code>>

\* main, lines 244-247: no command, or not one of commands: the usage and
\* help() are printed and main returns 1
DispatchUnknown ==
    /\ pc = "dispatch"
    /\ IF args = << >> THEN TRUE ELSE args[1] \notin Commands
    /\ out' = out \o <<[kind |-> "usage"], [kind |-> "help", of |-> Commands]>>
    /\ ret' = 1
    /\ pc' = "returned"
    /\ UNCHANGED <<fs, args, version, input, cand, file_paths, idx, lines,
                   first_line, die_desc, die_rolls, handles, temp_tuples, ci,
                   chi_sq_results, keys, kpos, exc, exit_code>>

\* main, line 250 with help, lines 228-238, then line 252
DispatchHelp ==
    /\ pc = "dispatch"
    /\ args # << >> /\ args[1] = "help"
    /\ IF Len(args) > 2
         THEN Raise("TypeError") /\ UNCHANGED <<out, ret>>
       ELSE IF Len(args) = 1
         THEN Emit([kind |-> "help", of |-> Commands])
              /\ ret' = 0 /\ pc' = "returned" /\ UNCHANGED exc
       ELSE IF args[2] \in Commands
         THEN Emit([kind |-> "help", of |-> {args[2]}])
              /\ ret' = 0 /\ pc' = "returned" /\ UNCHANGED exc
       ELSE Raise("KeyError") /\ UNCHANGED <<out, ret>>
    /\ UNCHANGED <<fs, args, version, input, cand, file_paths, idx, lines,
                   first_line, die_desc, die_rolls, handles, temp_tuples, ci,
                   chi_sq_results, keys, kpos, exit_code>>

\* main, line 250 with basic or chi_sq, which take no argument
DispatchCommand ==
    /\ pc = "dispatch"
    /\ args # << >> /\ args[1] \in {"basic", "chi_sq"}
    /\ IF Len(args) > 1 THEN Raise("TypeError") ELSE pc' = "command" /\ UNCHANGED exc
    /\ UNCHANGED <<fs, args, version, input, cand, file_paths, idx, lines,
                   first_line, die_desc, die_rolls, handles, temp_tuples, ci,
                   chi_sq_results, keys, kpos, out, ret, exit_code>>

(***************************************************************************)
(* _sort_all_apropriate_files                                              *)
(***************************************************************************)
\* lines 159 / 204 and 70-79: the pattern is expanded
SelectStart ==
    /\ pc = "command"
    /\ cand' = Glob(SearchPattern(input))
    /\ file_paths' = << >>
    /\ pc' = "select"
    /\ UNCHANGED <<fs, args, version, input, idx, lines, first_line, die_desc,
                   die_rolls, handles, temp_tuples, ci, chi_sq_results, keys,
                   kpos, out, ret, exc, exit_code>>

\* lines 79-83: the next candidate is acceptable
SelectAccept ==
    /\ pc = "select"
    /\ \E poss_path \in cand :
         /\ Acceptable(poss_path)
         /\ file_paths' = Append(file_paths, poss_path)
         /\ cand' = cand \ {poss_path}
    /\ UNCHANGED <<fs, args, version, input, pc, idx, lines, first_line,
                   die_desc, die_rolls, handles, temp_tuples, ci,
                   chi_sq_results, keys, kpos, out, ret, exc, exit_code>>

\* lines 79-86: the next candidate is passed over
SelectReject ==
    /\ pc = "select"
    /\ \E poss_path \in cand :
         /\ ~Acceptable(poss_path)
         /\ cand' = cand \ {poss_path}
    /\ UNCHANGED <<fs, args, version, input, pc, file_paths, idx, lines,
                   first_line, die_desc, die_rolls, handles, temp_tuples, ci,
                   chi_sq_results, keys, kpos, out, ret, exc, exit_code>>

\* line 88, and the for loop of basic / chi_sq begins (temp_tuples = [ ])
SelectReturn ==
    /\ pc = "select"
    /\ cand = {}
    /\ idx' = 1
    /\ temp_tuples' = << >>
    /\ pc' = "loop"
    /\ UNCHANGED <<fs, args, version, input, cand, file_paths, lines,
                   first_line, die_desc, die_rolls, handles, ci,
                   chi_sq_results, keys, kpos, out, ret, exc, exit_code>>

(***************************************************************************)
(* _read_die_file                                                          *)
(***************************************************************************)
\* lines 161 / 208 and 42-46: the next die file is opened
ReadOpen ==
    /\ pc = "loop"
    /\ idx <= Len(file_paths)
    /\ handles' = handles \cup {CurrentFile}
    /\ lines' = fs[CurrentFile].content
    /\ first_line' = TRUE
    /\ die_desc' = << >>
    /\ die_rolls' = EmptyDict
    /\ pc' = "read"
    /\ UNCHANGED <<fs, args, version, input, cand, file_paths, idx,
                   temp_tuples, ci, chi_sq_results, keys, kpos, out, ret, exc,
                   exit_code>>

\* lines 48-51: the first line is the description
ReadFirstLine ==
    /\ pc = "read"
    /\ lines # << >>
    /\ first_line
    /\ die_desc' = Head(lines)
    /\ first_line' = FALSE
    /\ lines' = Tail(lines)
    /\ UNCHANGED <<fs, args, version, input, pc, cand, file_paths, idx,
                   die_rolls, handles, temp_tuples, ci, chi_sq_results, keys,
                   kpos, out, ret, exc, exit_code>>

\* lines 53-56: a further line that int( ) converts is counted
ReadRollLine ==
    /\ pc = "read"
    /\ lines # << >>
    /\ ~first_line
    /\ ParseInt(Head(lines)).ok
    /\ die_rolls' = CountRoll(die_rolls, ParseInt(Head(lines)).val)
    /\ lines' = Tail(lines)
    /\ UNCHANGED <<fs, args, version, input, pc, cand, file_paths, idx,
                   first_line, die_desc, handles, temp_tuples, ci,
                   chi_sq_results, keys, kpos, out, ret, exc, exit_code>>

\* line 53 with the error caught per file: the file is given up and the loop
\* of basic / chi_sq goes on with the next one
ReadBadLine_perFile ==
    /\ pc = "read"
    /\ lines # << >>
    /\ ~first_line
    /\ ~ParseInt(Head(lines)).ok
    /\ lines' = Tail(lines)
    /\ idx' = idx + 1
    /\ pc' = "loop"
    /\ UNCHANGED <<fs, args, version, input, cand, file_paths,
                   first_line, die_desc, die_rolls, handles, temp_tuples, ci,
                   chi_sq_results, keys, kpos, out, ret, exc, exit_code>>

\* line 53 with the bad line passed over
ReadBadLine_skip ==
    /\ pc = "read"
    /\ lines # << >>
    /\ ~first_line
    /\ ~ParseInt(Head(lines)).ok
    /\ lines' = Tail(lines)
    /\ UNCHANGED <<fs, args, version, input, pc, cand, file_paths, idx,
                   first_line, die_desc, die_rolls, handles, temp_tuples, ci,
                   chi_sq_results, keys, kpos, out, ret, exc, exit_code>>

\* line 53: int( ) raises ValueError, which nothing catches
ReadBadLine ==
    /\ pc = "read"
    /\ lines # << >>
    /\ ~first_line
    /\ ~ParseInt(Head(lines)).ok
    /\ lines' = Tail(lines)
    /\ Raise("ValueError")
    /\ UNCHANGED <<fs, args, version, input, cand, file_paths, idx,
                   first_line, die_desc, die_rolls, handles, temp_tuples, ci,
                   chi_sq_results, keys, kpos, out, ret, exit_code>>

\* line 58 with a file that has no description line refused
ReadReturn_needsDescription ==
    /\ pc = "read"
    /\ lines = << >>
    /\ IF first_line THEN Raise("ParseError") ELSE pc' = "parsed" /\ UNCHANGED exc
    /\ UNCHANGED <<fs, args, version, input, cand, file_paths, idx, lines,
                   first_line, die_desc, die_rolls, handles, temp_tuples, ci,
                   chi_sq_results, keys, kpos, out, ret, exit_code>>

\* line 58: the file is exhausted; the file object is left open, for the
\* interpreter to finalize
ReadReturn ==
    /\ pc = "read"
    /\ lines = << >>
    /\ pc' = "parsed"
    /\ UNCHANGED <<fs, args, version, input, cand, file_paths, idx, lines,
                   first_line, die_desc, die_rolls, handles, temp_tuples, ci,
                   chi_sq_results, keys, kpos, out, ret, exc, exit_code>>

\* the interpreter finalizes a file object no frame refers to any more, which
\* closes it: at once under reference counting, at some later time otherwise
Finalize ==
    /\ pc \in {"loop", "read", "parsed", "calc", "print", "returned", "raised"}
    /\ \E h \in handles :
         /\ ~(pc \in {"read", "raised"} /\ idx \in 1..Len(file_paths) /\ h = CurrentFile)
         /\ handles' = handles \ {h}
    /\ UNCHANGED <<fs, args, version, input, pc, cand, file_paths, idx, lines,
                   first_line, die_desc, die_rolls, temp_tuples, ci,
                   chi_sq_results, keys, kpos, out, ret, exc, exit_code>>

(***************************************************************************)
(* basic and chi_sq                                                        *)
(***************************************************************************)
\* basic, lines 167-192: the report of the die just read
BasicPrint ==
    /\ pc = "parsed"
    /\ args[1] = "basic"
    /\ Emit(BasicReport(die_desc, die_rolls))
    /\ idx' = idx + 1
    /\ pc' = "loop"
    /\ UNCHANGED <<fs, args, version, input, cand, file_paths, lines,
                   first_line, die_desc, die_rolls, handles, temp_tuples, ci,
                   chi_sq_results, keys, kpos, ret, exc, exit_code>>

\* basic ends, main returns 0 at line 252
BasicDone ==
    /\ pc = "loop"
    /\ idx > Len(file_paths)
    /\ args[1] = "basic"
    /\ ret' = 0
    /\ pc' = "returned"
    /\ UNCHANGED <<fs, args, version, input, cand, file_paths, idx, lines,
                   first_line, die_desc, die_rolls, handles, temp_tuples, ci,
                   chi_sq_results, keys, kpos, out, exc, exit_code>>

\* chi_sq, line 213
ChiSqAppend ==
    /\ pc = "parsed"
    /\ args[1] = "chi_sq"
    /\ temp_tuples' = Append(temp_tuples, <<die_desc, Values(die_rolls)>>)
    /\ idx' = idx + 1
    /\ pc' = "loop"
    /\ UNCHANGED <<fs, args, version, input, cand, file_paths, lines,
                   first_line, die_desc, die_rolls, handles, ci,
                   chi_sq_results, keys, kpos, out, ret, exc, exit_code>>

\* chi_sq, line 216: _calculate_chi_squared is called, line 99
CalculateStart ==
    /\ pc = "loop"
    /\ idx > Len(file_paths)
    /\ args[1] = "chi_sq"
    /\ chi_sq_results' = EmptyDict
    /\ ci' = 1
    /\ pc' = "calc"
    /\ UNCHANGED <<fs, args, version, input, cand, file_paths, idx, lines,
                   first_line, die_desc, die_rolls, handles, temp_tuples,
                   keys, kpos, out, ret, exc, exit_code>>

\* lines 101-109 with the test refused for fewer than 2 categories
CalculateStep_insufficient ==
    /\ pc = "calc"
    /\ ci <= Len(temp_tuples)
    /\ IF Len(temp_tuples[ci][2]) < 2
         THEN Raise("InsufficientDataError") /\ UNCHANGED <<chi_sq_results, ci>>
         ELSE /\ chi_sq_results' = StoreResult(chi_sq_results, temp_tuples[ci][1],
                                               ChiSquare(temp_tuples[ci][2]))
              /\ ci' = ci + 1
              /\ UNCHANGED <<pc, exc>>
    /\ UNCHANGED <<fs, args, version, input, cand, file_paths, idx, lines,
                   first_line, die_desc, die_rolls, handles, temp_tuples,
                   keys, kpos, out, ret, exit_code>>

\* _calculate_chi_squared, lines 101-109: the test of one die is stored
CalculateStep ==
    /\ pc = "calc"
    /\ ci <= Len(temp_tuples)
    /\ chi_sq_results' = StoreResult(chi_sq_results, temp_tuples[ci][1],
                                     ChiSquare(temp_tuples[ci][2]))
    /\ ci' = ci + 1
    /\ UNCHANGED <<fs, args, version, input, pc, cand, file_paths, idx, lines,
                   first_line, die_desc, die_rolls, handles, temp_tuples,
                   keys, kpos, out, ret, exc, exit_code>>

\* line 111, then chi_sq, lines 219-220
CalculateReturn ==
    /\ pc = "calc"
    /\ ci > Len(temp_tuples)
    /\ keys' = SortedStrs(DOMAIN chi_sq_results)
    /\ kpos' = 1
    /\ Emit([kind |-> "rule"])
    /\ pc' = "print"
    /\ UNCHANGED <<fs, args, version, input, cand, file_paths, idx, lines,
                   first_line, die_desc, die_rolls, handles, temp_tuples, ci,
                   chi_sq_results, ret, exc, exit_code>>

\* chi_sq, lines 220-226: the next entry is displayed
ChiSqPrint ==
    /\ pc = "print"
    /\ kpos <= Len(keys)
    /\ Emit(ChiReport(keys[kpos], chi_sq_results[keys[kpos]]))
    /\ kpos' = kpos + 1
    /\ UNCHANGED <<fs, args, version, input, pc, cand, file_paths, idx, lines,
                   first_line, die_desc, die_rolls, handles, temp_tuples, ci,
                   chi_sq_results, keys, ret, exc, exit_code>>

\* chi_sq ends, main returns 0 at line 252
ChiSqDone ==
    /\ pc = "print"
    /\ kpos > Len(keys)
    /\ ret' = 0
    /\ pc' = "returned"
    /\ UNCHANGED <<fs, args, version, input, cand, file_paths, idx, lines,
                   first_line, die_desc, die_rolls, handles, temp_tuples, ci,
                   chi_sq_results, keys, kpos, out, exc, exit_code>>

\* lines 254-255: main() is called and what it returns is dropped, so the
\* status is 0 when main returns and 1 when an exception leaves it; the
\* files still open are closed with the process
ProcessExit ==
    /\ pc \in {"returned", "raised"}
    /\ exit_code' = IF pc = "raised" THEN 1 ELSE 0
    /\ handles' = {}
    /\ pc' = "exited"
    /\ UNCHANGED <<fs, args, version, input, cand, file_paths, idx, lines,
                   first_line, die_desc, die_rolls, temp_tuples, ci,
                   chi_sq_results, keys, kpos, out, ret, exc>>

Next ==
    \/ MainStart
    \/ DispatchUnknown
    \/ DispatchHelp
    \/ DispatchCommand
    \/ SelectStart
    \/ SelectAccept
    \/ SelectReject
    \/ SelectReturn
    \/ ReadOpen
    \/ ReadFirstLine
    \/ ReadRollLine
    \/ ReadBadLine
    \/ ReadReturn
    \/ Finalize
    \/ BasicPrint
    \/ BasicDone
    \/ ChiSqAppend
    \/ CalculateStart
    \/ CalculateStep
    \/ CalculateReturn
    \/ ChiSqPrint
    \/ ChiSqDone
    \/ ProcessExit

Spec == Init /\ [][Next]_vars

(***************************************************************************)
(* What the claims speak of                                                *)
(***************************************************************************)
\* the loop of basic / chi_sq is at a die file
AtFile == idx \in 1..Len(file_paths)

\* the lines of the current die file, and how many of them were read
Content == fs[CurrentFile].content

Yielded == Len(Content) - Len(lines)

\* the number of lines of a content after the description line
RollLineCount(content) == IF content = << >> THEN 0 ELSE Len(content) - 1

\* the first line of a content, empty for a content of no lines
DescriptionLine(content) == IF content = << >> THEN << >> ELSE content[1]

\* the line is a base-10 integer: optional white space, an optional sign,
\* one or more decimal digits, optional white space
IsBase10Integer(line) ==
    \E i, j \in 1..Len(line) :
        /\ i <= j
        /\ \A k \in i..j : line[k] \in {"1", "2"}
        /\ \A k \in 1..(i - 1) :
              line[k] \in {SP, NL, "\t"} \/ (k = i - 1 /\ line[k] \in {"+", "-"})
        /\ \A k \in (j + 1)..Len(line) : line[k] \in {SP, NL, "\t"}

\* every line of the file after the first is a base-10 integer
WellFormed(path) ==
    \A i \in 2..Len(fs[path].content) : IsBase10Integer(fs[path].content[i])

Total(rolls) == SumOver(rolls, DOMAIN rolls)

IsDieReport(item) == item.kind \in {"die", "chi"}

\* the per-die reports printed so far
DieReports == SelectSeq(out, IsDieReport)

\* the number of records _calculate_chi_squared has been through
Tested == IF pc = "calc" THEN ci - 1 ELSE Len(temp_tuples)

\* _calculate_chi_squared is running or has returned
InChiSq == pc \in {"calc", "print"} \/ (ret = 0 /\ args[1] = "chi_sq")

\* the command named on the command line is not one of the commands
UnknownCommand == IF args = << >> THEN TRUE ELSE args[1] \notin Commands

\* the last record among the first n with description d
LastWith(d, n) ==
    CHOOSE i \in 1..n :
        /\ temp_tuples[i][1] = d
        /\ \A j \in (i + 1)..n : temp_tuples[j][1] # d

(***************************************************************************)
(* The claims                                                              *)
(***************************************************************************)
\* C1: while _read_die_file reads a die file and when it has returned, the
\* counts of die_rolls sum to the number of lines read after the description
\* line; once the file is read, to the number of lines after the first; the
\* count lists chi_sq keeps and the totals basic divides by are those sums
C1_CountsSumToRollLines ==
    /\ (AtFile /\ pc \in {"read", "parsed"}) =>
          /\ Total(die_rolls) = IF Yielded = 0 THEN 0 ELSE Yielded - 1
          /\ pc = "parsed" => Total(die_rolls) = RollLineCount(Content)
    /\ \A i \in 1..Len(temp_tuples) :
          SumOver(temp_tuples[i][2], 1..Len(temp_tuples[i][2]))
              = RollLineCount(fs[file_paths[i]].content)

\* C1 witness: a file of three roll lines with a repeated value has been read
C1_Witness ==
    /\ AtFile /\ pc = "parsed"
    /\ Total(die_rolls) = 3
    /\ Cardinality(DOMAIN die_rolls) = 2
    /\ Content[2] # Content[3] /\ Content[2] = Content[4]

\* C2: a line after the first that is not a base-10 integer, once read, has
\* raised ValueError out of _read_die_file and main; it is never passed over,
\* and no file with such a line yields a result
C2_BadLineIsFatal ==
    /\ (AtFile /\ pc \in {"read", "parsed", "raised", "exited"}) =>
          /\ (\E i \in 2..Yielded : ~IsBase10Integer(Content[i])) =>
                 (pc \in {"raised", "exited"} /\ exc = "ValueError" /\ ret = NoCode)
          /\ pc = "parsed" => WellFormed(CurrentFile)
    /\ \A i \in 1..Len(file_paths) : i < idx => WellFormed(file_paths[i])

\* C2 witness: a blank line after the first has raised ValueError
C2_Witness ==
    /\ AtFile /\ pc = "raised" /\ exc = "ValueError"
    /\ Content[Yielded] = <<NL>>
    /\ Yielded >= 3

C4_NoReportAtAll ==
    (pc \in {"raised", "exited"} /\ exc = "ValueError") => DieReports = << >>

\* what holds of a run that a malformed die file has aborted
C4_Aborted ==
    (pc \in {"raised", "exited"} /\ exc = "ValueError") =>
        /\ AtFile /\ ~WellFormed(CurrentFile)
        /\ \A i \in 1..(idx - 1) : WellFormed(file_paths[i])
        /\ ret = NoCode
        /\ args[1] = "chi_sq" => DieReports = << >>
        /\ args[1] = "basic" =>
              /\ Len(DieReports) = idx - 1
              /\ \A i \in 1..(idx - 1) :
                    DieReports[i].desc = Strip(DescriptionLine(fs[file_paths[i]].content))

\* C4 as amended: a die file that fails to parse ends the run in the error
\* (a command that returns has met no malformed file); from then on no file
\* is opened and nothing is printed; chi_sq has printed no per-die report,
\* basic has printed the reports of the files before the malformed one, in
\* their order, and none for the malformed file
C4_MalformedFileAborts ==
    /\ [](C4_Aborted)
    /\ []((ret = 0 /\ args[1] \in {"basic", "chi_sq"}) =>
             \A i \in 1..Len(file_paths) : WellFormed(file_paths[i]))
    /\ [][exc = "ValueError" => (out' = out /\ handles' \subseteq handles /\ idx' = idx)]_vars

\* C4 witness: basic was aborted by the second of two files, the report of
\* the first is printed
C4_Witness ==
    /\ pc = "raised" /\ exc = "ValueError" /\ args[1] = "basic"
    /\ idx = 2 /\ Len(file_paths) = 2
    /\ Len(DieReports) = 1

\* C5 as claimed: the mapping has one entry per description as trimmed
C5_KeyedByTrimmed ==
    InChiSq =>
        Cardinality(DOMAIN chi_sq_results)
            = Cardinality({Strip(temp_tuples[i][1]) : i \in 1..Tested})

\* C5 as amended: the mapping is keyed by the description as read, the first
\* line with its line terminator: it has one entry per distinct such
\* description, and the entry is the result of the last file that has it
C5_KeyedByDescription ==
    InChiSq =>
        /\ DOMAIN chi_sq_results = {temp_tuples[i][1] : i \in 1..Tested}
        /\ \A d \in DOMAIN chi_sq_results :
              chi_sq_results[d] = ChiSquare(temp_tuples[LastWith(d, Tested)][2])

\* C5 witness: two files of one description and different counts, one entry
C5_Witness ==
    /\ pc = "print" /\ Len(temp_tuples) = 2
    /\ temp_tuples[1][1] = temp_tuples[2][1]
    /\ ChiSquare(temp_tuples[1][2]) # ChiSquare(temp_tuples[2][2])
    /\ Cardinality(DOMAIN chi_sq_results) = 1

\* C6 as claimed: of two entries printed one after the other, the
\* description printed for the first is not greater than that of the second
C6_PrintedAscending ==
    \A i \in 1..(Len(DieReports) - 1) :
        (DieReports[i].kind = "chi" /\ DieReports[i + 1].kind = "chi") =>
            ~LessStr(DieReports[i + 1].desc, DieReports[i].desc)

\* C6 as amended: the entries are printed in ascending order of the keys of
\* the mapping, the descriptions as read and not as trimmed for display:
\* whatever the order of the files, the keys are gone through in strictly
\* ascending order, each once, and the entries printed are those of the
\* keys gone through
C6_KeysAscending ==
    (pc = "print" \/ (ret = 0 /\ args[1] = "chi_sq")) =>
        /\ \A i \in 1..(Len(keys) - 1) : LessStr(keys[i], keys[i + 1])
        /\ {keys[i] : i \in 1..Len(keys)} = DOMAIN chi_sq_results
        /\ DieReports = [i \in 1..(kpos - 1) |->
                            ChiReport(keys[i], chi_sq_results[keys[i]])]

\* C6 witness: two entries are printed, in the reverse of the file order
C6_Witness ==
    /\ pc = "print" /\ kpos = 3
    /\ temp_tuples[1][1] = keys[2] /\ temp_tuples[2][1] = keys[1]

\* C7: at the end of the process, the exit status is 1 when no command or an
\* unknown command was given (the usage and the command summary are printed,
\* no die file was selected or read), and 0 when a command of the program
\* has returned
C7_ExitStatus ==
    pc = "exited" =>
        /\ UnknownCommand =>
              /\ exit_code = 1
              /\ \E i \in 1..Len(out) : out[i].kind = "usage"
              /\ \E i \in 1..Len(out) : out[i].kind = "help"
              /\ file_paths = << >> /\ idx = 0
        /\ (~UnknownCommand /\ exc = "none") => exit_code = 0

\* C8: at most one die file is open at any time, and none when the command
\* has ended or was aborted
C8_FilesClosed ==
    /\ Cardinality(handles) <= 1
    /\ pc \in {"returned", "raised"} => handles = {}

HasSuffixExtension(name) ==
    /\ Len(name) > Len(Suffix)
    /\ SubSeq(name, Len(name) - Len(Suffix) + 1, Len(name)) = Suffix
    /\ \E j \in 1..(Len(name) - Len(Suffix)) : name[j] # "."

\* C10: what _sort_all_apropriate_files returns are exactly the candidates of
\* the glob expansion that are regular files with the extension .txt, in
\* that case of letters, each once; for an input that is a directory they
\* are entries of that directory itself; selecting raises nothing, the
\* result may be empty
C10_SelectedFiles ==
    idx >= 1 =>
        /\ {file_paths[i] : i \in 1..Len(file_paths)}
              = {c \in Glob(SearchPattern(input)) :
                    /\ c \in DOMAIN fs
                    /\ fs[c].kind = "file"
                    /\ HasSuffixExtension(c[Len(c)])}
        /\ Cardinality({file_paths[i] : i \in 1..Len(file_paths)}) = Len(file_paths)
        /\ (input = << >> \/ (input \in DOMAIN fs /\ fs[input].kind = "dir")) =>
              \A i \in 1..Len(file_paths) :
                  /\ Len(file_paths[i]) = Len(input) + 1
                  /\ SubSeq(file_paths[i], 1, Len(input)) = input
        /\ (pc = "loop" /\ idx = 1) => exc = "none"

\* C10 witness: of a directory that holds a.txt, c.TXT, d, .txt and the
\* directory e.txt with a file a.txt in it, a.txt alone is selected
C10_Witness ==
    /\ idx >= 1 /\ input = << >>
    /\ DOMAIN fs = {<<N_a>>, <<N_cTXT>>, <<N_d>>, <<N_hidden>>, <<N_e>>, <<N_e, N_a>>}
    /\ file_paths = <<<<N_a>>>>

====
